---- MODULE Spec2Model ----
(***************************************************************************)
(* A model of gohaven (src/main.go): the session loop of main, the         *)
(* wallpaper download (downloadWallpaper), the wallpaper setter            *)
(* (setWallpaper), the window-manager detector (detectWindowManager) and   *)
(* the log flush (writeLog).                                               *)
(*                                                                         *)
(* Strings whose characters the code inspects (environment variables,      *)
(* pgrep output, the user's answer) are sequences of one-character         *)
(* strings.  An attribute lookup `v, exists := sel.Attr(name)` is an       *)
(* option: << >> when exists is false, <<v>> when it is true.              *)
(***************************************************************************)
EXTENDS Integers, Sequences, FiniteSets, TLC

\* ------------------------------------------------------------- bounds --
\* Files the downloads of one run create before exploration stops.
MaxDownloads == 2
\* Elements of a detail page.
MaxElems == 2

\* time.Sleep(2 * time.Second)
BackoffSeconds == 2

\* ------------------------------------------------------------ strings --
UpperChars == <<"A","B","C","D","E","F","G","H","I","J","K","L","M",
                "N","O","P","Q","R","S","T","U","V","W","X","Y","Z">>
LowerChars == <<"a","b","c","d","e","f","g","h","i","j","k","l","m",
                "n","o","p","q","r","s","t","u","v","w","x","y","z">>

\* unicode.ToLower on one character
ToLowerChar(c) ==
    IF \E i \in 1..Len(UpperChars) : UpperChars[i] = c
    THEN LowerChars[CHOOSE i \in 1..Len(UpperChars) : UpperChars[i] = c]
    ELSE c

\* strings.ToLower
ToLower(s) == [i \in 1..Len(s) |-> ToLowerChar(s[i])]

\* strings.Contains
Contains(s, sub) ==
    \E i \in 0..(Len(s) - Len(sub)) : SubSeq(s, i + 1, i + Len(sub)) = sub

IsSpace(c) == c \in {" ", "\t", "\n", "\r"}

RECURSIVE TrimLeft(_)
TrimLeft(s) ==
    IF s # << >> /\ IsSpace(Head(s)) THEN TrimLeft(Tail(s)) ELSE s

RECURSIVE TrimRight(_)
TrimRight(s) ==
    IF s # << >> /\ IsSpace(s[Len(s)])
    THEN TrimRight(SubSeq(s, 1, Len(s) - 1))
    ELSE s

\* strings.TrimSpace
TrimSpace(s) == TrimRight(TrimLeft(s))

\* ------------------------------------------------ detectWindowManager --
sGnome == <<"g","n","o","m","e">>
sI3 == <<"i","3">>
sDwm == <<"d","w","m">>

\* Values of XDG_CURRENT_DESKTOP and DESKTOP_SESSION.
EnvValues ==
    { << >>,
      <<"u","b","u","n","t","u",":","G","N","O","M","E">>,
      <<"g","n","o","m","e">>,
      <<"i","3">>,
      <<"I","3">>,
      <<"d","w","m">>,
      <<"D","W","M">>,
      <<"i","3","-","g","n","o","m","e">>,
      <<"g","n","o","m","e","+","d","w","m">>,
      <<"d","w","m","-","i","3">>,
      <<"x","f","c","e">> }

\* A pgrep run: cmd.Output() gives (output, err).
PgrepResults ==
    { [err |-> TRUE, out |-> << >>],
      [err |-> FALSE, out |-> <<"8","1"," ","d","w","m","\n">>],
      [err |-> FALSE, out |-> <<"6","4"," ","i","3","\n">>],
      [err |-> FALSE, out |-> << >>],
      [err |-> TRUE, out |-> <<"6","4"," ","i","3","\n">>],
      [err |-> TRUE, out |-> <<"8","1"," ","d","w","m","\n">>] }

\* The query of a detector that has not run.
NotRun == [err |-> TRUE, out |-> <<"n","o","t","r","u","n">>]

EnvHas(xdg, sess, word) ==
    Contains(ToLower(xdg), word) \/ Contains(ToLower(sess), word)

PgrepFound(r, word) == r.err = FALSE /\ Contains(r.out, word)

\* Mutant: the i3 test before the gnome test.
detectWindowManagerI3First(xdg, sess, pgDwm, pgI3) ==
    IF EnvHas(xdg, sess, sI3) THEN "i3"
    ELSE IF EnvHas(xdg, sess, sGnome) THEN "gnome"
    ELSE IF EnvHas(xdg, sess, sDwm) THEN "dwm"
    ELSE IF PgrepFound(pgDwm, sDwm) THEN "dwm"
    ELSE IF PgrepFound(pgI3, sI3) THEN "i3"
    ELSE "unknown"

detectWindowManager(xdg, sess, pgDwm, pgI3) ==
    IF EnvHas(xdg, sess, sGnome) THEN "gnome"
    ELSE IF EnvHas(xdg, sess, sI3) THEN "i3"
    ELSE IF EnvHas(xdg, sess, sDwm) THEN "dwm"
    ELSE IF PgrepFound(pgDwm, sDwm) THEN "dwm"
    ELSE IF PgrepFound(pgI3, sI3) THEN "i3"
    ELSE "unknown"

\* The environment setWallpaper runs in: the two variables, what
\* `pgrep -l dwm` and `pgrep -l i3` answer, and whether exec.LookPath
\* finds feh.
Environments == [xdg : EnvValues, sess : EnvValues,
                 pgDwm : PgrepResults, pgI3 : PgrepResults, feh : {TRUE}]

\* One call of detectWindowManager in the environment e: the record of
\* its inputs and result.
Detect(e) ==
    [xdg |-> e.xdg, sess |-> e.sess, pgDwm |-> e.pgDwm, pgI3 |-> e.pgI3,
     wm |-> detectWindowManager(e.xdg, e.sess, e.pgDwm, e.pgI3)]

NoDetect == [xdg |-> << >>, sess |-> << >>, pgDwm |-> NotRun, pgI3 |-> NotRun,
             wm |-> "none"]

\* ------------------------------------------------------------ writeLog --
\* A log line: <<message, arguments>>.
E(msg, args) == <<msg, args>>

\* fmt.Sprintf("----------------- %02d:%02d -----------------\n", ...)
Header == E("----------------- HH:MM -----------------", << >>)

\* The part of the program state the calls below read and write:
\*   buf     logBuffer
\*   cfg     $HOME/.config/i3/config
\*   disk    the file names in the pictures directory
\*   stale   the last writeLog call failed: logBuffer holds its lines
\*   created the files os.Create has made so far (history, bounded)
\*   emitted the lines the current operation wrote to logBuffer (history)
\*   flushed the writeLog calls of the current operation (history): for
\*           each the lines it appended to the day's file in logs/ and
\*           its error.  The file is opened with O_APPEND and never read,
\*           so what it held before is no part of the program's state.
Log(st, e) ==
    [st EXCEPT !.buf = Append(@, e), !.emitted = Append(@, e)]

\* How one writeLog call's file I/O goes: os.OpenFile fails, or
\* f.WriteString fails, or both work.  The environment lets any writeLog
\* call fail but the one that follows a failed one: logBuffer, which is
\* not reset by a failed call, stays bounded.
LogIOs(st) ==
    IF st.stale THEN {"ok"} ELSE {"ok", "open fails", "write fails"}

\* One writeLog call: the lines a completed write appended to the file
\* (what a failed write left there is not tracked) and the call's error.
Flush(lines, err) == [lines |-> lines, err |-> err]

\* writeLog: the header goes to the END of logBuffer (line 29), the buffer
\* is appended to the day's file and, when that worked, reset.
writeLog(st, io) ==
    LET s1 == Log(st, Header) IN
    CASE io = "open fails" ->
           [st |-> [s1 EXCEPT !.stale = TRUE,
                              !.flushed = Append(@, Flush(<< >>, "failed to open log file"))],
            err |-> "failed to open log file"]
      [] io = "write fails" ->
           [st |-> [s1 EXCEPT !.stale = TRUE,
                              !.flushed = Append(@, Flush(<< >>, "failed to write to log file"))],
            err |-> "failed to write to log file"]
      [] OTHER ->
           [st |-> [s1 EXCEPT !.flushed = Append(@, Flush(s1.buf, "")), !.buf = << >>,
                              !.stale = FALSE],
            err |-> ""]

\* Every way one writeLog call can go from st.
WriteLogs(st) == { writeLog(st, io) : io \in LogIOs(st) }

\* `if err := writeLog(); err != nil { log.Printf(...) }`: the error is
\* printed and dropped.
FlushIgnoringError(st) == { r.st : r \in WriteLogs(st) }

\* ------------------------------------------------------ the detail page --
\* An attribute that is not there, and one that is there with value v.
Absent == << >>
Present(v) == <<v>>

\* An element of the page in document order: its tag, whether it lies in
\* a .scrollbox element, its id, and its src, data-cfsrc and
\* data-wallpaper-id attributes.
Elem(tag, box, id, src, cfsrc, wid) ==
    [tag |-> tag, box |-> box, id |-> id, src |-> src, cfsrc |-> cfsrc, wid |-> wid]

Elements ==
    { Elem("img", TRUE, "", Absent, Present("https://w.example/full/a.jpg"), Present("w1")),
      Elem("img", TRUE, "", Present("https://w.example/lazy.gif"), Present(""), Absent),
      Elem("img", TRUE, "", Present("https://w.example/thumb.jpg"), Absent, Present("w2")),
      Elem("img", FALSE, "wallpaper", Present("https://w.example/full/b.jpg"), Absent, Absent),
      Elem("img", FALSE, "showcase-wallpaper", Present("https://w.example/full/c.jpg"), Absent, Absent),
      Elem("img", FALSE, "showcase-wallpaper", Present(""), Absent, Absent),
      Elem("img", FALSE, "", Present("https://w.example/logo.png"), Absent, Absent),
      Elem("div", FALSE, "wallpaper", Absent, Absent, Absent) }

\* The detail pages: the documents of at most MaxElems elements.
Docs == UNION { [1..n -> Elements] : n \in 0..MaxElems }

IsScrollboxImg(e) == e.tag = "img" /\ e.box
IsWallpaper(e) == e.id = "wallpaper"
IsShowcaseImg(e) == e.tag = "img" /\ e.id = "showcase-wallpaper"
IsImg(e) == e.tag = "img"

\* goquery's Selection.Attr: the attribute of the FIRST element of the
\* selection; exists is false for an empty selection.
Attr(sel, name) == IF sel = << >> THEN Absent ELSE sel[1][name]

\* The three selector strategies of lines 228, 231 and 235, in order.
Strategy(doc, k) ==
    CASE k = 1 -> Attr(SelectSeq(doc, IsScrollboxImg), "cfsrc")
      [] k = 2 -> Attr(SelectSeq(doc, IsWallpaper), "src")
      [] OTHER -> Attr(SelectSeq(doc, IsShowcaseImg), "src")

\* Lines 224-236: src, exists after the chain of `if !exists` fallbacks.
ImageSource(doc) ==
    IF Strategy(doc, 1) # Absent THEN Strategy(doc, 1)
    ELSE IF Strategy(doc, 2) # Absent THEN Strategy(doc, 2)
    ELSE Strategy(doc, 3)

\* Lines 250-253.
WallpaperID(doc) ==
    LET a == Attr(SelectSeq(doc, IsScrollboxImg), "wid") IN
    IF a = Absent THEN "unknown" ELSE a[1]

\* `imgSrc, _ := s.Attr("src")`: the empty string for a missing attribute.
AttrOrEmpty(a) == IF a = Absent THEN "" ELSE a[1]

\* Mutant: the dump stops after the first image.
ImgDumpFirstOnly(doc) ==
    LET imgs == SelectSeq(doc, IsImg) IN
    [i \in 1..(IF Len(imgs) > 0 THEN 1 ELSE 0) |->
        E("img", <<i - 1, AttrOrEmpty(imgs[i].src), AttrOrEmpty(imgs[i].cfsrc)>>)]

\* Lines 241-246: one line per img element, numbered from 0.
ImgDump(doc) ==
    LET imgs == SelectSeq(doc, IsImg) IN
    [i \in 1..Len(imgs) |->
        E("img", <<i - 1, AttrOrEmpty(imgs[i].src), AttrOrEmpty(imgs[i].cfsrc)>>)]

RECURSIVE LogAll(_, _)
LogAll(st, es) == IF es = << >> THEN st ELSE LogAll(Log(st, Head(es)), Tail(es))

\* fmt.Sprintf("%d-%s.png", time.Now().UnixMilli(), wallpaperID): the
\* decimal reading, a dash, the identifier.  Two names are equal exactly
\* when both parts are.
FileName(millis, id) == <<millis, id>>

\* The readings of the wall clock.  time.Now().UnixMilli() reads the wall
\* clock, which the system may set back, so a later reading is not bound
\* to be greater than an earlier one.  As many readings as there are
\* downloads give every pattern of equal and different readings.
Millis == 1..MaxDownloads

\* filepath.IsAbs
IsAbs(dir) == dir # << >> /\ dir[1] = "/"

\* filepath.Abs(filepath.Join(picturesDir, name)): the cleaned directory,
\* under the working directory when it is relative, and the name.
AbsPath(dir, name) ==
    <<IF IsAbs(dir) THEN dir ELSE <<"/", "c", "w", "d", "/">> \o dir, name>>

\* -------------------------------------------------------- setWallpaper --
\* $HOME/.config/i3/config: whether it exists, and its lines.  A line is
\* the startup directive the code writes ("exec"), a part of it left by a
\* failed write ("partial"), a comment that quotes the feh command
\* ("comment"), or something else ("other").
CfgLine(kind, path) == [kind |-> kind, path |-> path]

\* fmt.Sprintf("\nexec --no-startup-id feh --bg-scale %s\n", absPath)
FehLine(abs) == CfgLine("exec", abs)

\* strings.Contains(string(configContent), "feh --bg-scale " + absPath):
\* true of the startup directive and of any other line that quotes the
\* command with this path.
ConfigHasInvocation(lines, abs) ==
    \E i \in 1..Len(lines) :
        lines[i].kind \in {"exec", "comment"} /\ lines[i].path = abs

\* What one tool invocation (cmd.Run) gives: the exit and the stderr text.
ToolRuns == [exit : {"ok", "failed"}, stderr : {"", "warning"}]

\* Mutant: stderr output is not an error.
StderrIsErrorNever(run) == FALSE

\* `if stderr.String() != ""` (lines 111 and 149).
StderrIsError(run) == run.stderr # ""

\* The record of one setWallpaper call (history).
NoSet ==
    [reached |-> FALSE, abs |-> << >>, det |-> NoDetect, feh |-> "notlooked",
     exit |-> "notrun", stderr |-> "", cfgAppended |-> FALSE,
     wallpaperSet |-> FALSE, err |-> ""]

\* A failure return of setWallpaper: the line is logged, the log flushed
\* (its error dropped) and the error returned.
SetFails(st, line, err, set) ==
    { [st |-> s, err |-> err, set |-> [set EXCEPT !.err = err]] :
        s \in FlushIgnoringError(Log(st, line)) }

\* Mutant: the config is appended to whatever it holds.
ShouldAppendAlways(cfg, abs) == cfg.exists

\* Lines 163-168: the file is there (os.Stat) and lacks the invocation.
ShouldAppend(cfg, abs) == cfg.exists /\ ~ConfigHasInvocation(cfg.lines, abs)

\* Lines 161-183: the i3 persistence step.  os.Stat can fail on a file
\* that is there (nothing happens then); the other failures (reading the
\* file, opening it for append, writing) are logged as warnings only.  A
\* failed write leaves the file as it was or with a part of the line.
ConfigSteps(st, abs, set) ==
    IF ~st.cfg.exists THEN { [st |-> st, set |-> set] }
    ELSE { [st |-> st, set |-> set],
           [st |-> Log(st, E("Warning: could not read i3 config", << >>)), set |-> set] }
         \cup
         IF ~ShouldAppend(st.cfg, abs) THEN { }
         ELSE { [st |-> Log(st, E("Warning: could not append to i3 config", << >>)),
                 set |-> set],
                [st |-> Log(st, E("Warning: could not write to i3 config", << >>)),
                 set |-> set],
                [st |-> Log([st EXCEPT !.cfg.lines = Append(@, CfgLine("partial", abs))],
                            E("Warning: could not write to i3 config", << >>)),
                 set |-> set],
                [st |-> Log([st EXCEPT !.cfg.lines = Append(@, FehLine(abs))],
                            E("Added feh command to i3 config for persistence", << >>)),
                 set |-> [set EXCEPT !.cfgAppended = TRUE]] }

\* Lines 192-195: "Wallpaper Set" is logged and writeLog's error returned.
SetDone(st, set) ==
    { [st |-> r.st, err |-> r.err,
       set |-> [set EXCEPT !.wallpaperSet = TRUE, !.err = r.err]] :
        r \in WriteLogs(Log(st, E("Wallpaper Set", << >>))) }

\* Lines 141-158 (and 103-120 for gsettings): the tool has been started.
AfterRun(st, abs, set, run) ==
    LET set1 == [set EXCEPT !.exit = run.exit, !.stderr = run.stderr] IN
    IF run.exit = "failed"
    THEN SetFails(st, E("Error", << >>), "failed to set wallpaper", set1)
    ELSE IF StderrIsError(run)
    THEN SetFails(st, E("stderr", <<run.stderr>>), "tool stderr", set1)
    ELSE LET s1 == Log(st, E("stdout", << >>)) IN
         IF set.det.wm = "i3"
         THEN UNION { SetDone(c.st, c.set) : c \in ConfigSteps(s1, abs, set1) }
         ELSE SetDone(s1, set1)

\* The switch of line 91: the default branch is every other name.
IsSupported(wm) == wm \in {"gnome", "dwm", "i3"}

\* setWallpaper(wallpaperFileName, picturesDir) in the environment env:
\* every way the call can go, as [st, err, set].
setWallpaper(st, name, dir, env) ==
    LET abs  == AbsPath(dir, name)
        set0 == [NoSet EXCEPT !.reached = TRUE, !.abs = abs]
    IN  (IF IsAbs(dir) THEN { }
         ELSE SetFails(st, E("Error getting absolute path", << >>),
                       "failed to get absolute path", set0))
        \cup
        (
          LET d    == Detect(env)
              set1 == [set0 EXCEPT !.det = d]
              s1   == Log(st, E("Detected window manager", <<d.wm>>))
          IN  IF ~IsSupported(d.wm)
              THEN SetFails(s1, E("Error: unknown window manager", << >>),
                            "unknown window manager", set1)
              ELSE IF d.wm = "gnome"
              THEN UNION { AfterRun(Log(s1, E("gsettings set", <<abs>>)), abs, set1, run) :
                             run \in ToolRuns }
              ELSE IF ~env.feh
              THEN SetFails(s1, E("Error: feh not found", << >>), "feh not found",
                            [set1 EXCEPT !.feh = "missing"])
              ELSE UNION { AfterRun(Log(s1, E("feh --bg-scale", <<abs>>)), abs,
                                    [set1 EXCEPT !.feh = "found"], run) :
                             run \in ToolRuns }
        )

\* ---------------------------------------------------- downloadWallpaper --
\* The record of one downloadWallpaper call (history): whether it got a
\* page and which,
\* the image URL it requested, the file it created and whether a file of
\* that name was there before (os.Create truncates it), the setWallpaper
\* call.
NoDownload ==
    [page |-> FALSE, doc |-> << >>, imgURL |-> Absent, created |-> Absent,
     existed |-> FALSE, set |-> NoSet]

\* client.Do(imgReq) and the status check (lines 265-273).  A src without
\* a scheme (the empty string) fails in client.Do.
ImageResponses(url) ==
    IF url = "" THEN { "failed to download wallpaper" }
    ELSE { "failed to download wallpaper", "unexpected image download status code", "" }

\* Lines 275-291: the image answered 200.
SaveAndSet(st, name, dir, env, dl) ==
    LET s1 == Log(st, E("Starting Download", << >>)) IN
    \* os.Create fails
    { [st |-> s1, err |-> "failed to create image file", dl |-> dl] }
    \cup
    LET s2  == [s1 EXCEPT !.disk = @ \cup {name}, !.created = @ + 1]
        dl2 == [dl EXCEPT !.created = Present(name), !.existed = name \in s1.disk]
    IN  \* io.Copy fails
        { [st |-> s2, err |-> "failed to save image", dl |-> dl2] }
        \cup
        { [st |-> r.st, err |-> r.err, dl |-> [dl2 EXCEPT !.set = r.set]] :
            r \in setWallpaper(Log(s2, E("Download done", << >>)), name, dir, env) }

\* Lines 223-291: the page was fetched and parsed.
FromPage(st, doc, dir, env) ==
    LET src == ImageSource(doc)
        dl  == [NoDownload EXCEPT !.page = TRUE, !.doc = doc]
    IN  IF src = Absent
        THEN { [st |-> LogAll(Log(st, E("No image source found. Dumping img tags:", << >>)),
                              ImgDump(doc)),
                err |-> "wallpaper image source not found", dl |-> dl] }
        ELSE UNION {
               LET name == FileName(now, WallpaperID(doc))
                   dl1  == [dl EXCEPT !.imgURL = src]
               IN  { [st |-> st, err |-> e, dl |-> dl1] :
                       e \in ImageResponses(src[1]) \ {""} }
                   \cup
                   (IF "" \in ImageResponses(src[1])
                    THEN SaveAndSet(st, name, dir, env, dl1)
                    ELSE { })
               : now \in Millis }

\* http.NewRequest fails on a URL it cannot parse (line 201).
Malformed(url) == url = ":bad"

\* downloadWallpaper(url, picturesDir) in the environment env, the server
\* answering with one of docs: every way the call can go, as [st, err, dl].
downloadWallpaper(st, url, dir, env, docs) ==
    IF Malformed(url)
    THEN { [st |-> st, err |-> "failed to create request", dl |-> NoDownload] }
    ELSE { [st |-> st, err |-> e, dl |-> NoDownload] :
             e \in { "failed to fetch wallpaper page", "unexpected status code",
                     "failed to parse HTML" } }
         \cup UNION { FromPage(st, doc, dir, env) : doc \in docs }

\* ------------------------------------------------ fetchRandomWallpaperURL --
\* The href of the first .thumb a of the random page.
Refs == { "https://wallhaven.cc/w/x8ye3z", ":bad" }

\* fetchRandomWallpaperURL: every (src, err) it can return.
fetchRandomWallpaperURL ==
    { [src |-> "", err |-> e] :
        e \in { "failed to fetch random page", "unexpected status code",
                "failed to parse random page HTML", "wallpaper random URL not found" } }
    \cup { [src |-> r, err |-> ""] : r \in Refs }

\* ------------------------------------------------------------------ main --
VARIABLES
    pc,           \* where main is: "Start", "Fetching", "Downloading",
                  \* "Backoff", "AwaitingUserDecision", "Done", "Fatal"
    picturesDir,  \* picturesDir of main
    src,          \* src of the loop body: the wallpaper reference fetched last
    tried,        \* history: downloadWallpaper has been called with src
    env,          \* the environment: the two variables, the pgrep answers, feh
    logBuffer,    \* logBuffer
    i3config,     \* $HOME/.config/i3/config
    disk,         \* the file names in the pictures directory
    stale,        \* history: the last writeLog call failed
    created,      \* history: files created so far
    call          \* history: the operation that ran last

vars == <<pc, picturesDir, src, tried, env, logBuffer, i3config, disk, stale,
          created, call>>

\* The record of the operation that ran last (history): which, where
\* main was and what the i3 configuration and the pictures directory held
\* before it, its error, the text it read, its downloadWallpaper call, the
\* lines it wrote to logBuffer and its writeLog calls.
NoCall ==
    [op |-> "none", from |-> "none", cfgBefore |-> << >>, diskBefore |-> { },
     err |-> "", answer |-> << >>, dl |-> NoDownload,
     emitted |-> << >>, flushed |-> << >>]

Op(name) ==
    [NoCall EXCEPT !.op = name, !.from = pc, !.cfgBefore = i3config,
                   !.diskBefore = disk]

\* The state record the operations work on, from the variables.
Cur ==
    [buf |-> logBuffer, cfg |-> i3config, disk |-> disk, stale |-> stale,
     created |-> created,
     emitted |-> << >>, flushed |-> << >>]

Commit(s) ==
    /\ logBuffer' = s.buf
    /\ i3config' = s.cfg
    /\ disk' = s.disk
    /\ stale' = s.stale
    /\ created' = s.created

DefaultDir == <<".", "/", "P", "i", "c", "t", "u", "r", "e", "s">>

\* What the user types at the directory prompt (the empty line also
\* stands for end of input: scanner.Text() is "" then).
DirInputs == { << >>, <<" ">>, <<" ", "/", "p", "i", "c", "s", "\t">> }

\* What the user types at the keep prompt, as scanner.Text() gives it
\* (without the line end); the empty line also stands for end of input.
Answers ==
    { <<"y">>, <<" ", "Y", "\t">>, <<"y", "e", "s">>, <<"n">>, << >>, <<"n", "y">> }

PgFailed == [err |-> TRUE, out |-> << >>]
PgI3 == [err |-> FALSE, out |-> <<"6","4"," ","i","3","\n">>]

\* The environments of the session loop's runs: a GNOME session, a dwm
\* session, an i3 found by pgrep, nothing recognisable, and a dwm session
\* without feh.
LoopEnvs ==
    << [xdg |-> <<"u","b","u","n","t","u",":","G","N","O","M","E">>, sess |-> << >>,
       pgDwm |-> PgFailed, pgI3 |-> PgFailed, feh |-> TRUE],
      [xdg |-> << >>, sess |-> <<"d","w","m">>, pgDwm |-> PgFailed, pgI3 |-> PgFailed,
       feh |-> TRUE],
      [xdg |-> << >>, sess |-> << >>, pgDwm |-> PgFailed, pgI3 |-> PgI3, feh |-> TRUE],
      [xdg |-> <<"x","f","c","e">>, sess |-> << >>, pgDwm |-> PgFailed, pgI3 |-> PgFailed,
       feh |-> TRUE],
      [xdg |-> << >>, sess |-> <<"D","W","M">>, pgDwm |-> PgFailed, pgI3 |-> PgFailed,
       feh |-> FALSE] >>

\* The i3 configuration files a run can start with: none, one without the
\* command, one that holds the startup directive of an earlier download.
InitialConfigs ==
    << [exists |-> FALSE, lines |-> << >>],
      [exists |-> TRUE, lines |-> <<CfgLine("other", << >>)>>],
      [exists |-> TRUE,
       lines |-> <<FehLine(AbsPath(DefaultDir, FileName(1, "unknown")))>>] >>

\* The detail pages the session loop's server answers with: none carries a
\* data-wallpaper-id, so every file is named "<millis>-unknown.png".
LoopDocs ==
    { <<Elem("img", TRUE, "", Absent, Present("https://w.example/full/a.jpg"), Absent)>>,
      <<Elem("img", TRUE, "", Present("https://w.example/lazy.gif"), Present(""), Absent)>>,
      <<Elem("img", FALSE, "wallpaper", Present("https://w.example/full/b.jpg"), Absent, Absent)>>,
      <<Elem("img", FALSE, "", Present("https://w.example/logo.png"), Absent, Absent)>> }

InitWith(worlds) ==
    /\ pc = "Start"
    /\ picturesDir = << >>
    /\ src = ""
    /\ tried = FALSE
    /\ \E w \in worlds : env = w.env /\ i3config = w.cfg
    /\ logBuffer = << >>
    /\ disk = { }
    /\ stale = FALSE
    /\ created = 0
    /\ call = NoCall

\* The runs of the session loop start in every environment with an i3
\* configuration file, and in the i3 environment with each of them.
LoopWorlds ==
    { [env |-> LoopEnvs[i], cfg |-> InitialConfigs[2]] : i \in 1..Len(LoopEnvs) }
    \cup { [env |-> LoopEnvs[3], cfg |-> c] : c \in {InitialConfigs[1], InitialConfigs[3]} }

Init == InitWith(LoopWorlds)

\* Lines 326-350: the directory prompt and the two os.MkdirAll calls; a
\* failing one ends the process (log.Fatalf).
Start ==
    /\ pc = "Start"
    /\ \E input \in DirInputs, mkdirs \in {"ok", "logs fails", "pictures fails"} :
         LET typed == TrimSpace(input)
             dir   == IF typed = << >> THEN DefaultDir ELSE typed
             s1    == IF typed = << >>
                      THEN Log(Cur, E("No directory provided, using default: ./Pictures", << >>))
                      ELSE Cur
             s2    == IF mkdirs = "ok"
                      THEN Log(s1, E("Using pictures directory", <<dir>>))
                      ELSE s1
         IN  /\ picturesDir' = dir
             /\ pc' = IF mkdirs = "ok" THEN "Fetching" ELSE "Fatal"
             /\ Commit(s2)
             /\ call' = [Op("start") EXCEPT !.answer = input,
                                       !.err = IF mkdirs = "ok" THEN "" ELSE mkdirs,
                                       !.emitted = s2.emitted, !.flushed = s2.flushed]
    /\ UNCHANGED <<src, tried, env>>

\* Lines 354-366: fetchRandomWallpaperURL and the handling of its error.
Fetch ==
    /\ pc = "Fetching"
    /\ created < MaxDownloads
    /\ \E r \in fetchRandomWallpaperURL :
         IF r.err # ""
         THEN \E s \in FlushIgnoringError(
                         Log(Cur, E("Error fetching random wallpaper URL", <<r.err>>))) :
                /\ Commit(s)
                /\ pc' = "Backoff"
                /\ UNCHANGED <<src, tried>>
                /\ call' = [Op("fetch") EXCEPT !.err = r.err,
                                          !.emitted = s.emitted, !.flushed = s.flushed]
         ELSE LET s == Log(Cur, E("src", <<r.src>>)) IN
                /\ Commit(s)
                /\ pc' = "Downloading"
                /\ src' = r.src
                /\ tried' = FALSE
                /\ call' = [Op("fetch") EXCEPT !.emitted = s.emitted,
                                          !.flushed = s.flushed]
    /\ UNCHANGED <<picturesDir, env>>

\* Lines 369-377: downloadWallpaper and the handling of its error.
DownloadFrom(docs) ==
    /\ pc = "Downloading"
    /\ tried' = TRUE
    /\ \E r \in downloadWallpaper(Cur, src, picturesDir, env, docs) :
         IF r.err # ""
         THEN \E s \in FlushIgnoringError(
                         Log(r.st, E("Error downloading wallpaper", <<r.err>>))) :
                /\ Commit(s)
                /\ pc' = "Backoff"
                /\ call' = [Op("download") EXCEPT !.err = r.err, !.dl = r.dl,
                                          !.emitted = s.emitted, !.flushed = s.flushed]
         ELSE /\ Commit(r.st)
              /\ pc' = "AwaitingUserDecision"
              /\ call' = [Op("download") EXCEPT !.dl = r.dl,
                                        !.emitted = r.st.emitted,
                                        !.flushed = r.st.flushed]
    /\ UNCHANGED <<picturesDir, src, env>>

Download == DownloadFrom(LoopDocs)

\* Mutant: after the backoff the same reference is downloaded again.
AfterBackoffRetry == "Downloading"

\* `continue` after time.Sleep (lines 361-362 and 375-376): the loop
\* starts over with a fetch.
AfterBackoff == "Fetching"

Sleep ==
    /\ pc = "Backoff"
    /\ pc' = AfterBackoff
    /\ call' = [Op("sleep") EXCEPT !.answer = <<BackoffSeconds>>]
    /\ UNCHANGED <<picturesDir, src, tried, env, logBuffer, i3config, disk,
                   stale, created>>

\* Mutant: the answer is not trimmed.
KeepAnswerUntrimmed(answer) == ToLower(answer) = <<"y">>

\* Lines 382-384: strings.ToLower(strings.TrimSpace(text)) == "y".
KeepAnswer(answer) == ToLower(TrimSpace(answer)) = <<"y">>

\* Lines 380-397: the keep prompt.
Prompt ==
    /\ pc = "AwaitingUserDecision"
    /\ \E answer \in Answers :
         LET line == IF KeepAnswer(answer)
                     THEN E("User chose to keep wallpaper. Exiting.", << >>)
                     ELSE E("User chose next wallpaper.", << >>)
         IN  \E s \in FlushIgnoringError(Log(Cur, line)) :
               /\ Commit(s)
               /\ pc' = IF KeepAnswer(answer) THEN "Done" ELSE "Fetching"
               /\ call' = [Op("prompt") EXCEPT !.answer = answer,
                                         !.emitted = s.emitted, !.flushed = s.flushed]
    /\ UNCHANGED <<picturesDir, src, tried, env>>

Next == Start \/ Fetch \/ Download \/ Sleep \/ Prompt

Spec == Init /\ [][Next]_vars

\* ------------------------------------------------- detection on its own --
\* detectWindowManager in every environment of Environments: the process
\* is about to call it (line 88), and DetectStep is the call.
InitDetect ==
    /\ pc = "Detecting"
    /\ picturesDir = DefaultDir
    /\ src = ""
    /\ tried = FALSE
    /\ env \in Environments
    /\ i3config = InitialConfigs[1]
    /\ logBuffer = << >>
    /\ disk = { }
    /\ stale = FALSE
    /\ created = 0
    /\ call = NoCall

DetectStep ==
    /\ pc = "Detecting"
    /\ pc' = "Detected"
    /\ call' = [Op("detect") EXCEPT !.dl.set.det = Detect(env)]
    /\ UNCHANGED <<picturesDir, src, tried, env, logBuffer, i3config, disk,
                   stale, created>>

NextDetect == DetectStep

SpecDetect == InitDetect /\ [][NextDetect]_vars

\* ------------------------------------------- the detail page on its own --
\* downloadWallpaper on every detail page of Docs, in a GNOME session: the
\* reference has been fetched (line 367) and ExtractDownload is lines
\* 369-377.
InitExtract ==
    /\ pc = "Downloading"
    /\ picturesDir = DefaultDir
    /\ src \in Refs
    /\ tried = FALSE
    /\ env = LoopEnvs[1]
    /\ i3config = InitialConfigs[1]
    /\ logBuffer = <<E("src", <<src>>)>>
    /\ disk = { }
    /\ stale = FALSE
    /\ created = 0
    /\ call = NoCall

ExtractDownload == DownloadFrom(Docs)

NextExtract == ExtractDownload

SpecExtract == InitExtract /\ [][NextExtract]_vars

\* ------------------------------------------------------------ properties --
\* C1: main ends normally only from AwaitingUserDecision and only on an
\* answer that is "y" once trimmed and lower-cased; every other answer
\* (the empty one, which is also end of input, included) leads back to
\* Fetching; and the user is prompted only after a download whose whole
\* chain succeeded: page, image URL, file, tool run, "Wallpaper Set" and
\* the final flush.
C1_KeepOnlyOnYes ==
    /\ pc = "Done" =>
         /\ call.op = "prompt"
         /\ call.from = "AwaitingUserDecision"
         /\ call.answer \in { <<"y">>, <<" ", "Y", "\t">> }
    /\ call.op = "prompt" =>
         /\ call.from = "AwaitingUserDecision"
         /\ pc = IF call.answer \in { <<"y">>, <<" ", "Y", "\t">> }
                 THEN "Done" ELSE "Fetching"
    /\ pc = "AwaitingUserDecision" =>
         /\ call.op = "download"
         /\ call.from = "Downloading"
         /\ call.err = ""
         /\ call.dl.page
         /\ call.dl.imgURL # Absent
         /\ call.dl.created # Absent
         /\ call.dl.created[1] \in disk
         /\ call.dl.set.reached
         /\ call.dl.set.exit = "ok"
         /\ call.dl.set.stderr = ""
         /\ call.dl.set.wallpaperSet
         /\ call.dl.set.err = ""
         /\ call.flushed # << >>
         /\ call.flushed[Len(call.flushed)].err = ""

\* The run ended on the answer " Y" followed by a tab.
C1_Witness ==
    /\ pc = "Done"
    /\ call.from = "AwaitingUserDecision"
    /\ call.answer = <<" ", "Y", "\t">>

\* C2: an error of fetchRandomWallpaperURL or of downloadWallpaper is
\* logged (the line is the last before the flush, and is in the block if
\* the flush succeeded) and leads to the backoff and from there to
\* Fetching; downloadWallpaper is only ever called with a reference that
\* was fetched just before and not tried yet; and the process ends
\* abnormally only at startup, when a directory cannot be created.
C2_ErrorsBackOff ==
    /\ (call.op \in {"fetch", "download"} /\ call.err # "") =>
         LET line == E(IF call.op = "fetch"
                       THEN "Error fetching random wallpaper URL"
                       ELSE "Error downloading wallpaper", <<call.err>>)
             n    == Len(call.emitted)
             last == call.flushed[Len(call.flushed)]
         IN  /\ pc = "Backoff"
             /\ n >= 2
             /\ call.emitted[n - 1] = line
             /\ call.emitted[n] = Header
             /\ call.flushed # << >>
             /\ last.err = "" =>
                  /\ Len(last.lines) >= 2
                  /\ last.lines[Len(last.lines) - 1] = line
    /\ pc = "Backoff" => (call.op \in {"fetch", "download"} /\ call.err # "")
    /\ call.op = "sleep" =>
         /\ call.from = "Backoff"
         /\ call.answer = <<BackoffSeconds>>
         /\ pc = "Fetching"
    /\ pc = "Downloading" => (call.op = "fetch" /\ call.err = "" /\ ~tried)
    /\ call.op = "download" => call.from = "Downloading"
    /\ pc = "Fatal" => (call.op = "start" /\ call.err # "")
    /\ pc = "Done" => call.op = "prompt"

\* A download failed, the backoff is over and main is about to fetch.
C2_Witness ==
    /\ call.op = "sleep"
    /\ tried
    /\ pc = "Fetching"

\* C5: a tool run (gsettings or feh) that exits with status zero and
\* writes to stderr makes setWallpaper, and so downloadWallpaper, return
\* the stderr error; "Wallpaper Set" is not logged and the i3
\* configuration is as it was before the call.
C5_StderrIsFailure ==
    (call.op = "download" /\ call.dl.set.exit = "ok" /\ call.dl.set.stderr # "") =>
        /\ call.dl.set.err = "tool stderr"
        /\ call.err = "tool stderr"
        /\ ~call.dl.set.wallpaperSet
        /\ \A i \in 1..Len(call.emitted) : call.emitted[i] # E("Wallpaper Set", << >>)
        /\ i3config = call.cfgBefore
        /\ pc = "Backoff"

\* feh exited with status zero and a warning on stderr, under i3 with a
\* configuration file that lacks the command.
C5_Witness ==
    /\ call.op = "download"
    /\ call.dl.set.det.wm = "i3"
    /\ call.dl.set.exit = "ok"
    /\ call.dl.set.stderr = "warning"
    /\ call.cfgBefore = InitialConfigs[2]

\* C6, as amended: the i3 configuration changes only in a setWallpaper
\* call under i3 whose feh run succeeded (exit zero, nothing on stderr),
\* whether or not the call then returns the error of its last flush, and
\* only when the file is there and holds no line with the command for the
\* absolute path; the change is one appended line, the startup directive
\* or the part of it a failed write left.  So the file holds the startup
\* directive of a path at most once, it is never created, and it never
\* changes when the window manager is not i3.
C6_ConfigAppend ==
    LET abs == call.dl.set.abs
        old == call.cfgBefore
    IN  /\ call.op # "none" => i3config.exists = old.exists
        /\ (call.op # "none" /\ i3config # old) =>
             /\ call.op = "download"
             /\ call.dl.set.reached
             /\ call.dl.set.det.wm = "i3"
             /\ call.dl.set.exit = "ok"
             /\ call.dl.set.stderr = ""
             /\ old.exists
             /\ \A i \in 1..Len(old.lines) :
                    ~(old.lines[i].kind \in {"exec", "comment"} /\ old.lines[i].path = abs)
             /\ \/ i3config.lines = Append(old.lines, CfgLine("exec", abs))
                \/ i3config.lines = Append(old.lines, CfgLine("partial", abs))
        /\ \A i, j \in 1..Len(i3config.lines) :
               (/\ i3config.lines[i].kind = "exec"
                /\ i3config.lines[j].kind = "exec"
                /\ i3config.lines[i].path = i3config.lines[j].path) => i = j
        /\ (call.op = "download" /\ call.dl.set.det.wm # "i3") => i3config = old
        /\ (env.xdg # << >> \/ env.sess # << >>) => i3config = InitialConfigs[2]

\* The directive was appended by a call that then returned the error of
\* its last flush.
C6_Witness ==
    /\ call.op = "download"
    /\ i3config.lines = Append(call.cfgBefore.lines, CfgLine("exec", call.dl.set.abs))
    /\ call.dl.set.wallpaperSet
    /\ call.dl.set.err # ""

\* C6, as stated: the i3 configuration is appended to only by a
\* setWallpaper call that succeeds (returns no error), under i3, when the
\* file is there and lacks the line for the absolute path; it holds the
\* line of a path at most once, is never created and never changes under
\* another window manager.
C6_OnlySuccessfulCallAppends ==
    LET abs == call.dl.set.abs
        old == call.cfgBefore
    IN  /\ call.op # "none" => i3config.exists = old.exists
        /\ (call.op # "none" /\ i3config # old) =>
             /\ call.op = "download"
             /\ call.dl.set.reached
             /\ call.dl.set.err = ""
             /\ call.dl.set.det.wm = "i3"
             /\ old.exists
             /\ \A i \in 1..Len(old.lines) : old.lines[i] # CfgLine("exec", abs)
        /\ \A i, j \in 1..Len(i3config.lines) :
               (/\ i3config.lines[i].kind = "exec"
                /\ i3config.lines[j].kind = "exec"
                /\ i3config.lines[i].path = i3config.lines[j].path) => i = j
        /\ (call.op = "download" /\ call.dl.set.det.wm # "i3") => i3config = old

\* C7: a download never creates a file under a name that a file of an
\* earlier download of the run has: the names of any two downloads differ.
C7_FileNamesDiffer ==
    (call.op = "download" /\ call.dl.created # Absent) =>
        /\ call.dl.created[1] \notin call.diskBefore
        /\ ~call.dl.existed

\* C8: what a writeLog call writes to the file is the header line followed
\* by the events of the block, so the header is the first line of what
\* each flush appends; after a successful flush logBuffer is empty.
C8_HeaderPrecedesEvents ==
    /\ \A k \in 1..Len(call.flushed) :
           call.flushed[k].err = "" =>
               /\ call.flushed[k].lines # << >>
               /\ call.flushed[k].lines[1] = Header
    /\ (call.flushed # << >> /\ call.flushed[Len(call.flushed)].err = "") =>
           logBuffer = << >>

\* C10: with nothing recognisable in the environment, or dwm or i3
\* without feh, a download that gets as far as setWallpaper fails, and
\* only after it has created its file; main never gets to
\* AwaitingUserDecision, never prompts and never ends; and each such
\* download leaves one more file in the pictures directory.
C10_UnsupportedNeverPrompts ==
    (\/ env.xdg = <<"x", "f", "c", "e">>
     \/ ~env.feh) =>
        /\ pc \notin {"AwaitingUserDecision", "Done"}
        /\ call.op # "prompt"
        /\ (call.op = "download" /\ call.dl.set.reached) =>
             /\ call.err # ""
             /\ call.dl.created # Absent
             /\ call.dl.created[1] \in disk
             /\ Cardinality(disk) = Cardinality(call.diskBefore) + 1

\* C3: detectWindowManager decides by the first match, in this order:
\* "gnome" in either variable (whatever the case, anywhere in the value),
\* then "i3" in either, then "dwm" in either, then a dwm process found,
\* then an i3 process found, else "unknown"; a process query that failed
\* counts as not found, whatever it printed.  The result is a function of
\* the four inputs.
C3_FirstMatchWins ==
    call.op = "detect" =>
        LET d      == call.dl.set.det
            gnome  == { <<"u","b","u","n","t","u",":","G","N","O","M","E">>,
                        <<"g","n","o","m","e">>,
                        <<"i","3","-","g","n","o","m","e">>,
                        <<"g","n","o","m","e","+","d","w","m">> }
            i3     == { <<"i","3">>, <<"I","3">>,
                        <<"i","3","-","g","n","o","m","e">>,
                        <<"d","w","m","-","i","3">> }
            dwm    == { <<"d","w","m">>, <<"D","W","M">>,
                        <<"g","n","o","m","e","+","d","w","m">>,
                        <<"d","w","m","-","i","3">> }
            dwmRun == [err |-> FALSE, out |-> <<"8","1"," ","d","w","m","\n">>]
            i3Run  == [err |-> FALSE, out |-> <<"6","4"," ","i","3","\n">>]
        IN  /\ d.xdg = env.xdg /\ d.sess = env.sess
            /\ d.pgDwm = env.pgDwm /\ d.pgI3 = env.pgI3
            /\ d.wm = IF d.xdg \in gnome \/ d.sess \in gnome THEN "gnome"
                      ELSE IF d.xdg \in i3 \/ d.sess \in i3 THEN "i3"
                      ELSE IF d.xdg \in dwm \/ d.sess \in dwm THEN "dwm"
                      ELSE IF d.pgDwm = dwmRun THEN "dwm"
                      ELSE IF d.pgI3 = i3Run THEN "i3"
                      ELSE "unknown"

\* XDG_CURRENT_DESKTOP is "i3-gnome", DESKTOP_SESSION is "dwm", both
\* processes run, and the result is "gnome".
C3_Witness ==
    /\ call.op = "detect"
    /\ env.xdg = <<"i","3","-","g","n","o","m","e">>
    /\ env.sess = <<"d","w","m">>
    /\ env.pgDwm = [err |-> FALSE, out |-> <<"8","1"," ","d","w","m","\n">>]
    /\ env.pgI3 = [err |-> FALSE, out |-> <<"6","4"," ","i","3","\n">>]
    /\ call.dl.set.det.wm = "gnome"

\* C4: the image URL downloadWallpaper requests is the value of the first
\* of the three strategies whose attribute has a non-empty value; a
\* strategy whose attribute is there but empty does not end the chain.
C4_FirstNonEmptyValue ==
    (call.op = "download" /\ call.dl.page) =>
        LET doc      == call.dl.doc
            filled   == { k \in 1..3 :
                            Strategy(doc, k) # Absent /\ Strategy(doc, k)[1] # "" }
        IN  filled # { } =>
                \E k \in filled :
                    /\ \A j \in filled : k <= j
                    /\ call.dl.imgURL = Strategy(doc, k)

\* C9: on a page where none of the three strategies finds its attribute,
\* downloadWallpaper logs, after the heading, one line per img element of
\* the page in document order (its index from 0, its src, its data-cfsrc,
\* "" for a missing one) and nothing else, then returns the not-found
\* error; it requests no image and creates no file.
C9_DumpBeforeNotFound ==
    (/\ call.op = "download"
     /\ call.dl.page
     /\ \A k \in 1..3 : Strategy(call.dl.doc, k) = Absent) =>
        LET doc  == call.dl.doc
            imgs == { i \in 1..Len(doc) : doc[i].tag = "img" }
            n    == Cardinality(imgs)
            \* the index of the img element at position i among the imgs
            nth(i) == Cardinality({ j \in imgs : j < i })
            val(a) == IF a = << >> THEN "" ELSE a[1]
        IN  /\ call.err = "wallpaper image source not found"
            /\ Len(call.emitted) = n + 3
            /\ call.emitted[1] = E("No image source found. Dumping img tags:", << >>)
            /\ \A i \in imgs :
                   call.emitted[nth(i) + 2] =
                       E("img", <<nth(i), val(doc[i].src), val(doc[i].cfsrc)>>)
            /\ call.emitted[n + 2] = E("Error downloading wallpaper", <<call.err>>)
            /\ call.dl.imgURL = Absent
            /\ call.dl.created = Absent
            /\ ~call.dl.set.reached
            /\ disk = call.diskBefore
            /\ pc = "Backoff"

\* A page of two img elements, neither of which any strategy finds an
\* attribute on: both are dumped.
C9_Witness ==
    /\ call.op = "download"
    /\ call.err = "wallpaper image source not found"
    /\ Len(call.dl.doc) = 2
    /\ call.dl.doc[1].tag = "img"
    /\ call.dl.doc[2].tag = "img"
    /\ call.dl.doc[1] # call.dl.doc[2]
    /\ Len(call.emitted) = 5

====
